---- MODULE Spec2Model ----
(***************************************************************************)
(* Model of gnosis/eth/clients/sourcify.py: the Sourcify client and its    *)
(* get_contract_metadata lookup (full_match first, partial_match second).  *)
(*                                                                         *)
(* Python values are tagged records of one shape, so that None, strings,   *)
(* lists and dicts can be compared; a dict is the ordered sequence of its  *)
(* <<key, value>> items, as Python keeps insertion order.                  *)
(***************************************************************************)
EXTENDS Integers, Sequences, FiniteSets, TLC

VARIABLES network, contract_address, pc, match_idx, requests, responses,
          outcome, error, result

vars == <<network, contract_address, pc, match_idx, requests, responses,
          outcome, error, result>>

(***************************************************************************)
(* Bounds of the model.                                                    *)
(***************************************************************************)
\* largest number of entries of a settings.compilationTarget mapping
MaxTargets == 2
\* largest number of entries of an output.abi list
MaxAbi == 1

(***************************************************************************)
(* Python values.                                                          *)
(***************************************************************************)
None == [type |-> "NoneType", items |-> <<>>, elems |-> <<>>, s |-> ""]
Str(x) == [type |-> "str", items |-> <<>>, elems |-> <<>>, s |-> x]
List(es) == [type |-> "list", items |-> <<>>, elems |-> es, s |-> ""]
Dict(its) == [type |-> "dict", items |-> its, elems |-> <<>>, s |-> ""]

\* result of evaluating an expression: a value, or a raised exception
Ok(v) == [exc |-> "none", val |-> v]
Raise(e) == [exc |-> e, val |-> None]

HasKey(d, k) == \E i \in 1..Len(d.items) : d.items[i][1] = k
Lookup(d, k) == d.items[CHOOSE i \in 1..Len(d.items) : d.items[i][1] = k][2]

\* d[k]
GetItem(d, k) ==
    IF d.type # "dict" THEN Raise("TypeError")
    ELSE IF HasKey(d, k) THEN Ok(Lookup(d, k))
    ELSE Raise("KeyError")

\* d.get(k, default)
DictGet(d, k, default) ==
    IF d.type # "dict" THEN Raise("AttributeError")
    ELSE IF HasKey(d, k) THEN Ok(Lookup(d, k))
    ELSE Ok(default)

\* list(d.values()): the values in insertion order, as a sequence
DictValues(d) == [i \in 1..Len(d.items) |-> d.items[i][2]]

\* truth value of a Python object
Truthy(v) ==
    CASE v.type = "NoneType" -> FALSE
      [] v.type = "str" -> v.s # ""
      [] v.type = "list" -> Len(v.elems) > 0
      [] v.type = "dict" -> Len(v.items) > 0

(***************************************************************************)
(* The client's configuration.                                             *)
(***************************************************************************)
Networks == {1, 5}
base_url == "https://repo.sourcify.dev/"
request_timeout == 10

ChecksumAddresses ==
    { "0xd8dA6BF26964aF9D7eEd9e03E53415D37aA96045",
      "0x0000000000000000000000000000000000000000" }
Addresses ==
    ChecksumAddresses \cup
    { "0xd8da6bf26964af9d7eed9e03e53415d37aa96045",
      "0xD8DA6BF26964AF9D7EED9E03E53415D37AA96045" }

fast_is_checksum_address(address) == address \in ChecksumAddresses

(***************************************************************************)
(* The documents and responses the service can answer with.                *)
(***************************************************************************)
SourceFiles == <<"contracts/A.sol", "contracts/B.sol", "contracts/C.sol", "contracts/D.sol">>
TargetKeys == {SourceFiles[i] : i \in 1..MaxTargets}
ContractNames == {"GnosisSafe", "Proxy"}
AbiEntries == {"fn_setup", "ev_executed"}

SeqsUpTo(S, n) == UNION {[1..m -> S] : m \in 0..n}

\* mappings file -> contract name with distinct keys, in every order
CompilationTargets ==
    { Dict(its) : its \in
        { t \in SeqsUpTo({<<k, Str(nm)>> : k \in TargetKeys, nm \in ContractNames}, MaxTargets) :
            \A i, j \in 1..Len(t) : i # j => t[i][1] # t[j][1] } }

AbiLists == {List(es) : es \in SeqsUpTo(AbiEntries, MaxAbi)}

\* the item of a key, or no item when the key is absent
OutputItems ==
    {<<>>} \cup {<<<<"output", v>>>> :
        v \in {None, Dict(<<>>)} \cup {Dict(<<<<"abi", a>>>>) : a \in AbiLists}}
SettingsItems ==
    {<<>>} \cup {<<<<"settings", v>>>> :
        v \in {None, Dict(<<>>), Dict(<<<<"compilationTarget", None>>>>)}
              \cup {Dict(<<<<"compilationTarget", ct>>>>) : ct \in CompilationTargets}}

JsonDocuments ==
    {Dict(o \o s) : o \in OutputItems, s \in SettingsItems}
    \cup {Dict(<<<<"language", Str("Solidity")>>>>)}
    \cup {None, Str(""), Str("Not Found"), List(<<>>), List(<<"fn_setup">>)}

\* a response of http_session.get, or the exception it raised
HttpResponse(status, is_json, body) ==
    [exc |-> "none", status_code |-> status, is_json |-> is_json, body |-> body]
TransportError(e) ==
    [exc |-> e, status_code |-> 0, is_json |-> FALSE, body |-> None]

SampleDocument ==
    Dict(<<<<"output", Dict(<<<<"abi", List(<<>>)>>>>)>>,
           <<"settings", Dict(<<<<"compilationTarget", Dict(<<>>)>>>>)>>>>)

Responses ==
    {TransportError(e) : e \in {"ConnectionError", "Timeout"}}
    \cup {HttpResponse(st, FALSE, None) : st \in {200, 404, 500}}
    \cup {HttpResponse(200, TRUE, d) : d \in JsonDocuments}
    \cup {HttpResponse(404, TRUE, SampleDocument)}

\* response.ok
ok(response) == response.status_code < 400

(***************************************************************************)
(* The methods of Sourcify.                                                *)
(***************************************************************************)
\* variant: metadata.get("output", {}).get("abi") in place of the subscripts
_get_abi_from_metadata_Lenient(metadata) ==
    LET output == DictGet(metadata, "output", Dict(<<>>))
    IN  IF output.exc # "none" THEN output ELSE DictGet(output.val, "abi", None)

_get_abi_from_metadata(metadata) ==
    LET output == GetItem(metadata, "output")
    IN  IF output.exc # "none" THEN output ELSE GetItem(output.val, "abi")

\* variant: the last value of compilationTarget in place of the first
_get_name_from_metadata_LastValue(metadata) ==
    LET settings == GetItem(metadata, "settings")
    IN  IF settings.exc # "none" THEN settings
        ELSE LET target == DictGet(settings.val, "compilationTarget", Dict(<<>>))
             IN  IF target.exc # "none" THEN target
                 ELSE IF target.val.type # "dict" THEN Raise("AttributeError")
                 ELSE LET values == DictValues(target.val)
                      IN  IF Len(values) > 0 THEN Ok(values[Len(values)]) ELSE Ok(None)

\* variant: metadata.get("settings", {}) in place of metadata["settings"]
_get_name_from_metadata_OptionalSettings(metadata) ==
    LET settings == DictGet(metadata, "settings", Dict(<<>>))
    IN  IF settings.exc # "none" THEN settings
        ELSE LET target == DictGet(settings.val, "compilationTarget", Dict(<<>>))
             IN  IF target.exc # "none" THEN target
                 ELSE IF target.val.type # "dict" THEN Raise("AttributeError")
                 ELSE LET values == DictValues(target.val)
                      IN  IF Len(values) > 0 THEN Ok(values[1]) ELSE Ok(None)

_get_name_from_metadata(metadata) ==
    LET settings == GetItem(metadata, "settings")
    IN  IF settings.exc # "none" THEN settings
        ELSE LET target == DictGet(settings.val, "compilationTarget", Dict(<<>>))
             IN  IF target.exc # "none" THEN target
                 ELSE IF target.val.type # "dict" THEN Raise("AttributeError")
                 ELSE LET values == DictValues(target.val)
                      IN  IF Len(values) > 0 THEN Ok(values[1]) ELSE Ok(None)

\* variant: response.raise_for_status() in place of returning None
_do_request_RaiseForStatus(response) ==
    IF response.exc # "none" THEN Raise(response.exc)
    ELSE IF ~ok(response) THEN Raise("HTTPError")
    ELSE IF ~response.is_json THEN Raise("JSONDecodeError")
    ELSE Ok(response.body)

\* variant: the exception of http_session.get is caught and None returned
_do_request_CatchTransport(response) ==
    IF response.exc # "none" THEN Ok(None)
    ELSE IF ~ok(response) THEN Ok(None)
    ELSE IF ~response.is_json THEN Raise("JSONDecodeError")
    ELSE Ok(response.body)

\* variant: the exception of response.json() is caught and None returned
_do_request_CatchDecode(response) ==
    IF response.exc # "none" THEN Raise(response.exc)
    ELSE IF ~ok(response) THEN Ok(None)
    ELSE IF ~response.is_json THEN Ok(None)
    ELSE Ok(response.body)

_do_request(response) ==
    IF response.exc # "none" THEN Raise(response.exc)
    ELSE IF ~ok(response) THEN Ok(None)
    ELSE IF ~response.is_json THEN Raise("JSONDecodeError")
    ELSE Ok(response.body)

\* variant: the match types in the other order
MatchTypes_Reversed == <<"partial_match", "full_match">>

MatchTypes == <<"full_match", "partial_match">>

urljoin(base, path) == [base |-> base, path |-> path]

MetadataUrl(match_type, address) ==
    urljoin(base_url, <<"contracts", match_type, network, address, "metadata.json">>)

\* variant: the assertion left out
ChecksumAssertion_Skipped(address) == TRUE

ChecksumAssertion(address) == fast_is_checksum_address(address)

\* variant: "if metadata is not None" in place of "if metadata"
HasMetadata_NotNone(metadata) == metadata # None

HasMetadata(metadata) == Truthy(metadata)

\* variant: the flag computed from the wrong match type
IsPartialMatch_Inverted(match_type) == match_type = "full_match"

IsPartialMatch(match_type) == match_type = "partial_match"

ContractMetadata(name, abi, partial_match) ==
    [kind |-> "ContractMetadata", name |-> name, abi |-> abi, partial_match |-> partial_match]
NoResult ==
    [kind |-> "None", name |-> None, abi |-> None, partial_match |-> FALSE]

\* one pass of the loop body on the response received for match_type
LoopBody(match_type, response) ==
    LET metadata == _do_request(response)
    IN  IF metadata.exc # "none" THEN [kind |-> "raise", exc |-> metadata.exc, value |-> NoResult]
        ELSE IF HasMetadata(metadata.val)
        THEN LET abi == _get_abi_from_metadata(metadata.val)
                 name == _get_name_from_metadata(metadata.val)
             IN  IF abi.exc # "none" THEN [kind |-> "raise", exc |-> abi.exc, value |-> NoResult]
                 ELSE IF name.exc # "none" THEN [kind |-> "raise", exc |-> name.exc, value |-> NoResult]
                 ELSE [kind |-> "return", exc |-> "none",
                       value |-> ContractMetadata(name.val, abi.val, IsPartialMatch(match_type))]
        ELSE [kind |-> "continue", exc |-> "none", value |-> NoResult]

(***************************************************************************)
(* State machine: a client, and one call of get_contract_metadata at a     *)
(* time; requests and responses are the call's HTTP history.               *)
(***************************************************************************)
Init ==
    /\ network \in Networks
    /\ contract_address = ""
    /\ pc = "idle"
    /\ match_idx = 1
    /\ requests = <<>>
    /\ responses = <<>>
    /\ outcome = "none"
    /\ error = "none"
    /\ result = NoResult

\* get_contract_metadata is entered: the assertion on the address
Call(address) ==
    /\ pc \in {"idle", "done"}
    /\ contract_address' = address
    /\ requests' = <<>>
    /\ responses' = <<>>
    /\ match_idx' = 1
    /\ result' = NoResult
    /\ IF ChecksumAssertion(address)
       THEN pc' = "loop" /\ outcome' = "pending" /\ error' = "none"
       ELSE pc' = "done" /\ outcome' = "raised" /\ error' = "AssertionError"
    /\ UNCHANGED network

\* one iteration of the loop over the match types, and the return after it
Attempt(response) ==
    /\ pc = "loop"
    /\ match_idx <= Len(MatchTypes)
    /\ LET match_type == MatchTypes[match_idx]
           url == MetadataUrl(match_type, contract_address)
           step == LoopBody(match_type, response)
       IN  /\ requests' = Append(requests, [url |-> url, timeout |-> request_timeout])
           /\ responses' = Append(responses, response)
           /\ CASE step.kind = "raise" ->
                     /\ pc' = "done" /\ outcome' = "raised" /\ error' = step.exc
                     /\ result' = NoResult /\ UNCHANGED match_idx
                [] step.kind = "return" ->
                     /\ pc' = "done" /\ outcome' = "returned" /\ error' = "none"
                     /\ result' = step.value /\ UNCHANGED match_idx
                [] step.kind = "continue" /\ match_idx < Len(MatchTypes) ->
                     /\ match_idx' = match_idx + 1
                     /\ UNCHANGED <<pc, outcome, error, result>>
                [] step.kind = "continue" /\ match_idx >= Len(MatchTypes) ->
                     /\ pc' = "done" /\ outcome' = "returned" /\ error' = "none"
                     /\ result' = NoResult /\ UNCHANGED match_idx
    /\ UNCHANGED <<network, contract_address>>

Next ==
    \/ \E address \in Addresses : Call(address)
    \/ \E response \in Responses : Attempt(response)

Spec == Init /\ [][Next]_vars

TypeOK ==
    /\ network \in Networks
    /\ pc \in {"idle", "loop", "done"}
    /\ match_idx \in 1..Len(MatchTypes)
    /\ outcome \in {"none", "pending", "returned", "raised"}
    /\ Len(requests) = Len(responses)

(***************************************************************************)
(* Vocabulary of the properties: what a response is, read off the response *)
(* itself and not through the methods above.                               *)
(***************************************************************************)
IsPrefix(s, t) == Len(s) <= Len(t) /\ \A i \in 1..Len(s) : s[i] = t[i]

RequestedMatchTypes == [i \in 1..Len(requests) |-> requests[i].url.path[2]]

Attempts == 1..Len(responses)
Checksummed == pc # "idle" /\ fast_is_checksum_address(contract_address)

\* the call has ended and attempt i was its last
EndedAt(i) == pc = "done" /\ i = Len(requests)
ReturnedRecord == pc = "done" /\ outcome = "returned" /\ result.kind = "ContractMetadata"
ReturnedNone == pc = "done" /\ outcome = "returned" /\ result = NoResult /\ error = "none"
RaisedAt(i, e) == EndedAt(i) /\ outcome = "raised" /\ error = e /\ result = NoResult

IsTransportFailure(r) == r.exc # "none"
HttpSuccess(r) == r.exc = "none" /\ r.status_code \in 200..299
HttpFailure(r) == r.exc = "none" /\ r.status_code \notin 200..299
JsonSuccess(r) == HttpSuccess(r) /\ r.is_json

IsObject(v) == v.type = "dict"
HasObject(v, k) == IsObject(v) /\ HasKey(v, k) /\ IsObject(Lookup(v, k))
HasOutputAbi(d) == HasObject(d, "output") /\ HasKey(Lookup(d, "output"), "abi")
OutputAbi(d) == Lookup(Lookup(d, "output"), "abi")
HasTargetMapping(d) == HasObject(d, "settings") /\ HasObject(Lookup(d, "settings"), "compilationTarget")
TargetMapping(d) == Lookup(Lookup(d, "settings"), "compilationTarget")
\* the settings an attempt can read a name (or None) from
HasUsableSettings(d) ==
    /\ HasObject(d, "settings")
    /\ HasKey(Lookup(d, "settings"), "compilationTarget") => HasTargetMapping(d)
FirstTargetName(d) ==
    IF HasTargetMapping(d) /\ Len(TargetMapping(d).items) > 0
    THEN TargetMapping(d).items[1][2] ELSE None
LacksOutputAbi(d) ==
    IsObject(d) /\ (~HasKey(d, "output") \/ (HasObject(d, "output") /\ ~HasKey(Lookup(d, "output"), "abi")))
IsFalsyJson(v) == v \in {None, Dict(<<>>), List(<<>>), Str("")}

ProducesRecord(r) == JsonSuccess(r) /\ HasOutputAbi(r.body) /\ HasUsableSettings(r.body)

(***************************************************************************)
(* C1: in a call with a checksummed address the requests issued so far are *)
(* a prefix of [full_match, partial_match] (full first, each at most once, *)
(* at most two), and partial_match is requested only when the full_match   *)
(* response did not produce a record.                                      *)
(***************************************************************************)
C1_RequestOrder ==
    Checksummed =>
        /\ IsPrefix(RequestedMatchTypes, <<"full_match", "partial_match">>)
        /\ Len(requests) >= 2 => ~ProducesRecord(responses[1])

C1_Witness ==
    /\ Checksummed /\ ReturnedRecord
    /\ RequestedMatchTypes = <<"full_match", "partial_match">>

(***************************************************************************)
(* C2: a returned record has partial_match true exactly when it was built  *)
(* from the partial_match response (the second), and its name and abi are  *)
(* those of the document of that same response.                            *)
(***************************************************************************)
C2_RecordFromItsResponse ==
    ReturnedRecord =>
        LET n == Len(responses)
            doc == responses[n].body
        IN  /\ n \in {1, 2}
            /\ JsonSuccess(responses[n])
            /\ RequestedMatchTypes[n] = (IF n = 1 THEN "full_match" ELSE "partial_match")
            /\ result.partial_match = (n = 2)
            /\ HasOutputAbi(doc) /\ result.abi = OutputAbi(doc)
            /\ result.name = FirstTargetName(doc)

C2_Witness ==
    /\ ReturnedRecord /\ Len(responses) = 2
    /\ HttpFailure(responses[1])
    /\ result.partial_match /\ result.name = Str("Proxy")
    /\ result.abi = List(<<"ev_executed">>)

C4_NoRequestWithoutChecksum ==
    (pc # "idle" /\ ~fast_is_checksum_address(contract_address)) =>
        /\ pc = "done" /\ outcome = "raised" /\ error = "AssertionError"
        /\ requests = <<>> /\ responses = <<>>

C4_Witness ==
    /\ contract_address = "0xd8da6bf26964af9d7eed9e03e53415d37aa96045"
    /\ pc = "done" /\ error = "AssertionError"

(***************************************************************************)
(* C5 as stated: a transport failure of an attempt is handled as an HTTP   *)
(* error response is: nothing is raised, after the first attempt the call  *)
(* goes on to the next match type, after the last it returns None.         *)
(***************************************************************************)
C5_TransportFailureSwallowed ==
    \A i \in Attempts : IsTransportFailure(responses[i]) =>
        /\ outcome # "raised"
        /\ (i = Len(responses) /\ i = 1) => (pc = "loop" /\ match_idx = 2)
        /\ (i = Len(responses) /\ i = 2) => ReturnedNone

(***************************************************************************)
(* C5 amended: a transport failure of an attempt ends the call with that   *)
(* exception raised to the caller; no further match type is requested and  *)
(* no result is returned.                                                  *)
(***************************************************************************)
C5_TransportFailureRaised ==
    \A i \in Attempts : IsTransportFailure(responses[i]) =>
        RaisedAt(i, responses[i].exc)

C5_Witness ==
    /\ Len(responses) = 1 /\ responses[1].exc = "Timeout"
    /\ RequestedMatchTypes = <<"full_match">>
    /\ pc = "done" /\ outcome = "raised"

(***************************************************************************)
(* C6 as stated: a success response whose JSON object lacks output (or     *)
(* output.abi) makes the call raise; it neither returns None nor goes on   *)
(* to the next match type.                                                 *)
(***************************************************************************)
C6_MissingAbiAlwaysRaises ==
    \A i \in Attempts : (JsonSuccess(responses[i]) /\ LacksOutputAbi(responses[i].body)) =>
        (EndedAt(i) /\ outcome = "raised")

(***************************************************************************)
(* C6 amended: a success response whose JSON object is not empty and lacks *)
(* output, or whose output object lacks abi, makes the call raise KeyError *)
(* at that attempt: no None, no further match type.                        *)
(***************************************************************************)
C6_MissingAbiRaises ==
    \A i \in Attempts :
        (JsonSuccess(responses[i]) /\ LacksOutputAbi(responses[i].body)
            /\ responses[i].body # Dict(<<>>))
        => RaisedAt(i, "KeyError")

C6_Witness ==
    /\ Len(responses) = 1 /\ JsonSuccess(responses[1])
    /\ ~HasKey(responses[1].body, "output") /\ HasTargetMapping(responses[1].body)
    /\ pc = "done" /\ error = "KeyError"

(***************************************************************************)
(* C7: a success response whose body is not JSON ends the call with the    *)
(* parse error raised; no None, no further match type.                     *)
(***************************************************************************)
C7_DecodeErrorRaised ==
    \A i \in Attempts : (HttpSuccess(responses[i]) /\ ~responses[i].is_json) =>
        RaisedAt(i, "JSONDecodeError")

C7_Witness ==
    /\ Len(responses) = 1 /\ HttpSuccess(responses[1]) /\ ~responses[1].is_json
    /\ pc = "done" /\ outcome = "raised"

(***************************************************************************)
(* C8: a success response with output.abi and a settings.compilationTarget *)
(* mapping yields a record with that abi whose name is the mapping's first *)
(* value, or None when the mapping is empty.                               *)
(***************************************************************************)
C8_NameIsFirstTarget ==
    \A i \in Attempts :
        (JsonSuccess(responses[i]) /\ HasOutputAbi(responses[i].body)
            /\ HasTargetMapping(responses[i].body))
        => LET doc == responses[i].body
               target == TargetMapping(doc).items
           IN  /\ EndedAt(i) /\ ReturnedRecord
               /\ result.abi = OutputAbi(doc)
               /\ result.name = (IF Len(target) >= 1 THEN target[1][2] ELSE None)

C8_Witness ==
    /\ ReturnedRecord /\ Len(responses) = 1
    /\ HasTargetMapping(responses[1].body)
    /\ Len(TargetMapping(responses[1].body).items) = 2
    /\ TargetMapping(responses[1].body).items[2][2] = Str("Proxy")
    /\ result.name = Str("GnosisSafe")

C8_WitnessEmpty ==
    /\ ReturnedRecord /\ Len(responses) = 1
    /\ HasTargetMapping(responses[1].body)
    /\ TargetMapping(responses[1].body).items = <<>>
    /\ result.name = None /\ result.abi = List(<<"fn_setup">>)

(***************************************************************************)
(* C9: a success response whose JSON value is falsy ({}, [], null, "") is  *)
(* handled as a non-success status is: nothing is raised, no record is     *)
(* built; after the first attempt the call goes on to partial_match, after *)
(* the last it returns None.                                               *)
(***************************************************************************)
C9_FalsyBodyIsNotFound ==
    \A i \in Attempts : (JsonSuccess(responses[i]) /\ IsFalsyJson(responses[i].body)) =>
        /\ i = Len(responses) =>
              IF i = 1 THEN pc = "loop" /\ match_idx = 2 /\ outcome = "pending"
                       ELSE ReturnedNone
        /\ i < Len(responses) => RequestedMatchTypes[i + 1] = "partial_match"

C9_Witness ==
    /\ Len(responses) = 2 /\ ReturnedNone
    /\ JsonSuccess(responses[1]) /\ responses[1].body = Dict(<<>>)
    /\ JsonSuccess(responses[2]) /\ responses[2].body = List(<<>>)

====
